---- MODULE Spec2Model ----
(***************************************************************************)
(* Model of plugins/processors/gpuattributes/processor.go: the processor   *)
(* that filters the attributes of GPU metrics against per-level allow      *)
(* lists and prunes the JSON blob held by the "kubernetes" attribute.      *)
(*                                                                         *)
(* Strings the code inspects are modelled by what they are made of: a      *)
(* metric name is the sequence of its parts, the underscores and the words *)
(* between them (strings.Contains and strings.HasPrefix are computed on    *)
(* it), an attribute's string value is the sequence of its JSON lexemes    *)
(* (json.Unmarshal and json.Marshal are computed on it).                   *)
(***************************************************************************)
EXTENDS Naturals, Sequences, FiniteSets, TLC

VARIABLES
    registry,     \* the package-level schema tables (processor.go 44-77)
    input,        \* per worker: the batch as it was handed to processMetrics
    batch,        \* per worker: the batch, edited in place
    pc,           \* per worker: position of the call
    pos,          \* per worker: <<i, j, k>> of the loops of processMetrics
    locals,       \* per stack frame: labelFilter of processMetricAttributes
    logs,         \* per worker: what the call has sent to the logger
    ret,          \* per worker: what processMetrics returned
    fin,          \* unit harness: the attribute set handed to filterAttributes
    fout1,        \* unit harness: per level, the result of one application
    fout2,        \* unit harness: per level, the result of a second application
    pout1,        \* unit harness: per metric name, processMetrics applied once
    pout2,        \* unit harness: per metric name, processMetrics applied twice
    phase         \* unit harness: how many applications were made

vars == <<registry, input, batch, pc, pos, locals, logs, ret,
          fin, fout1, fout2, pout1, pout2, phase>>

walkVars == <<input, batch, pc, pos, locals, logs, ret>>
unitVars == <<fin, fout1, fout2, pout1, pout2, phase>>

\* ------------------------------------------------------------ bounds
MaxMetrics == 2
MaxPoints == 2
MaxBlobLen == 3
MaxPairs == 2

\* ------------------------------------------------------------ helpers
Range(s) == {s[i] : i \in 1..Len(s)}

\* strings.Contains(s, sub) on sequences of name parts
Contains(s, sub) ==
    \E i \in 0..Len(s) :
        /\ i + Len(sub) <= Len(s)
        /\ \A j \in 1..Len(sub) : s[i + j] = sub[j]

\* strings.HasPrefix(s, p) on sequences of name parts
HasPrefix(s, p) ==
    /\ Len(p) <= Len(s)
    /\ \A j \in 1..Len(p) : s[j] = p[j]

\* ------------------------------------------------------------ constants
gpuMetricIdentifier == <<"_", "gpu", "_">>
gpuContainerMetricPrefix == <<"container", "_">>
gpuPodMetricPrefix == <<"pod", "_">>
gpuNodeMetricPrefix == <<"node", "_">>

\* attribute keys of package containerinsightscommon
ClusterNameKey == "ClusterName"
InstanceIdKey == "InstanceId"
GpuDeviceKey == "GpuDevice"
MetricType == "Type"
NodeNameKey == "NodeName"
VersionKey == "Version"
SourcesKey == "Sources"
Timestamp == "Timestamp"
K8sNamespace == "Namespace"
FullPodNameKey == "FullPodName"
PodNameKey == "PodName"
TypeService == "Service"
GpuUniqueId == "UUID"
ContainerNamekey == "ContainerName"
K8sKey == "kubernetes"
HostKey == "host"

\* ------------------------------------------------------------ schema tables
nodeLabels ==
    <<ClusterNameKey, InstanceIdKey, GpuDeviceKey, MetricType,
      NodeNameKey, VersionKey, SourcesKey, Timestamp>>

podLabelsNotAppended ==
    <<K8sNamespace, FullPodNameKey, PodNameKey, TypeService, GpuUniqueId>>

podLabels ==
    <<K8sNamespace, FullPodNameKey, PodNameKey, TypeService, GpuUniqueId>>
        \o nodeLabels

containerLabels == <<ContainerNamekey>> \o podLabels

nodeK8sLabels == <<HostKey>>

podK8sLabels ==
    <<"host", "labels", "pod_id", "pod_name", "pod_owners", "namespace">>
        \o nodeK8sLabels

containerK8sLabels == <<"container_name", "containerd">> \o podK8sLabels

\* the package-level variables after package initialisation
InitialRegistry ==
    [nodeLabels |-> nodeLabels,
     podLabels |-> podLabels,
     containerLabels |-> containerLabels,
     nodeK8sLabels |-> nodeK8sLabels,
     podK8sLabels |-> podK8sLabels,
     containerK8sLabels |-> containerK8sLabels]

Levels == {"container", "pod", "node"}

\* the label list and the blob list the code selects for a level
LevelLabels(reg, L) ==
    CASE L = "container" -> reg.containerLabels
      [] L = "pod" -> reg.podLabels
      [] L = "node" -> reg.nodeLabels
      [] OTHER -> <<>>

LevelK8sLabels(reg, L) ==
    CASE L = "container" -> reg.containerK8sLabels
      [] L = "pod" -> reg.podK8sLabels
      [] L = "node" -> reg.nodeK8sLabels
      [] OTHER -> <<>>

\* ------------------------------------------------------------ JSON text
\* A string value is the sequence of its lexemes: punctuation, white space,
\* literals, numbers, string literals and words (text that is no JSON
\* lexeme, such as not-json or c1).
LBrace == "{"
RBrace == "}"
LBracket == "["
RBracket == "]"
Colon == ":"
Comma == ","
Space == " "
Null == "null"

\* the string literals of the model: the string -> the lexeme that writes it
\* with no escape
Quoted ==
    [a |-> "\"a\"",
     container_name |-> "\"container_name\"",
     containerd |-> "\"containerd\"",
     host |-> "\"host\"",
     labels |-> "\"labels\"",
     namespace |-> "\"namespace\"",
     pod_id |-> "\"pod_id\"",
     pod_name |-> "\"pod_name\"",
     pod_owners |-> "\"pod_owners\""]
        @@ ("<" :> "\"<\"")

\* the string -> the lexeme that writes it with the \u escape
Escaped == ("<" :> "\"\\u003c\"")

StrLit(v) == Quoted[v]

Puncts == {LBrace, RBrace, LBracket, RBracket, Colon, Comma}
Literals == {Null, "true", "false"}
Digits == {"0", "1", "2"}
StrLits == {Quoted[v] : v \in DOMAIN Quoted} \cup {Escaped[v] : v \in DOMAIN Escaped}

\* the string a literal stands for, as the decoder reads a key: escapes are
\* resolved, so "<" and "\u003c" are the same key
Unquoted ==
    [tok \in StrLits |->
        CHOOSE v \in DOMAIN Quoted :
            \/ Quoted[v] = tok
            \/ v \in DOMAIN Escaped /\ Escaped[v] = tok]

Unquote(tok) == Unquoted[tok]

Kind(tok) ==
    CASE tok = Space -> "ws"
      [] tok \in Puncts -> "punct"
      [] tok \in Literals -> "lit"
      [] tok \in Digits -> "num"
      [] tok \in StrLits -> "str"
      [] OTHER -> "word"

\* index of the first lexeme at or after i that is not white space
RECURSIVE SkipWs(_, _)
SkipWs(t, i) ==
    IF i > Len(t) \/ t[i] # Space THEN i ELSE SkipWs(t, i + 1)

\* the index after the digit run that starts at lexeme i
RECURSIVE DigitsEnd(_, _)
DigitsEnd(t, i) ==
    IF i > Len(t) \/ t[i] \notin Digits THEN i ELSE DigitsEnd(t, i + 1)

\* adjacent digits lex as one number; the scanner takes no digit after a
\* leading 0, so 01 is a syntax error (0)
NumEnd(t, i) ==
    IF t[i] = "0"
    THEN (IF i + 1 <= Len(t) /\ t[i + 1] \in Digits THEN 0 ELSE i + 1)
    ELSE DigitsEnd(t, i)

\* encoding/json's scanner: the index after the JSON value that starts at
\* lexeme i, or 0 when no well-formed value starts there
RECURSIVE ValueEnd(_, _), MembersEnd(_, _), ElementsEnd(_, _)
ValueEnd(t, i) ==
    IF i > Len(t) THEN 0
    ELSE CASE Kind(t[i]) \in {"lit", "str"} -> i + 1
           [] Kind(t[i]) = "num" -> NumEnd(t, i)
           [] t[i] = LBrace ->
                LET j == SkipWs(t, i + 1)
                IN  IF j <= Len(t) /\ t[j] = RBrace THEN j + 1
                    ELSE MembersEnd(t, j)
           [] t[i] = LBracket ->
                LET j == SkipWs(t, i + 1)
                IN  IF j <= Len(t) /\ t[j] = RBracket THEN j + 1
                    ELSE ElementsEnd(t, j)
           [] OTHER -> 0

MembersEnd(t, j) ==
    IF j > Len(t) \/ Kind(t[j]) # "str" THEN 0
    ELSE LET c == SkipWs(t, j + 1)
         IN  IF c > Len(t) \/ t[c] # Colon THEN 0
             ELSE LET e == ValueEnd(t, SkipWs(t, c + 1))
                      n == SkipWs(t, e)
                  IN  IF e = 0 \/ n > Len(t) THEN 0
                      ELSE IF t[n] = RBrace THEN n + 1
                      ELSE IF t[n] = Comma THEN MembersEnd(t, SkipWs(t, n + 1))
                      ELSE 0

ElementsEnd(t, j) ==
    LET e == ValueEnd(t, j)
        n == SkipWs(t, e)
    IN  IF e = 0 \/ n > Len(t) THEN 0
        ELSE IF t[n] = RBracket THEN n + 1
        ELSE IF t[n] = Comma THEN ElementsEnd(t, SkipWs(t, n + 1))
        ELSE 0

\* json.Valid: one well-formed value, white space around it allowed
ValidJSON(t) ==
    LET e == ValueEnd(t, SkipWs(t, 1))
    IN  e # 0 /\ SkipWs(t, e) = Len(t) + 1

\* the members of the well-formed object whose first key is lexeme j, in
\* order; a member's raw value is its lexemes, inner white space included
RECURSIVE Members(_, _)
Members(t, j) ==
    IF t[j] = RBrace THEN <<>>
    ELSE LET c == SkipWs(t, j + 1)
             v == SkipWs(t, c + 1)
             e == ValueEnd(t, v)
             n == SkipWs(t, e)
         IN  <<[key |-> Unquote(t[j]), raw |-> SubSeq(t, v, e - 1)]>>
                 \o (IF t[n] = Comma THEN Members(t, SkipWs(t, n + 1)) ELSE <<>>)

\* a Go map filled by assigning the members in order: the last one wins
MapOf(pairs) ==
    [key \in {pairs[i].key : i \in 1..Len(pairs)} |->
        LET last == CHOOSE i \in 1..Len(pairs) :
                        /\ pairs[i].key = key
                        /\ \A m \in 1..Len(pairs) : pairs[m].key = key => m <= i
        IN  pairs[last].raw]

NilBlob == [key \in {} |-> <<>>]

\* json.Unmarshal([]byte(strVal), &blob) with blob a nil
\* map[string]json.RawMessage: a syntax error or a value that is neither an
\* object nor null is an error; null leaves the map nil and is no error
Unmarshal(t) ==
    LET s == SkipWs(t, 1)
    IN  IF ~ValidJSON(t) THEN [err |-> TRUE, blob |-> NilBlob]
        ELSE IF t[s] = Null THEN [err |-> FALSE, blob |-> NilBlob]
        ELSE IF t[s] = LBrace
             THEN [err |-> FALSE, blob |-> MapOf(Members(t, SkipWs(t, s + 1)))]
        ELSE [err |-> TRUE, blob |-> NilBlob]

\* the order json.Marshal writes map keys in: sorted as byte strings
KeyOrder ==
    <<"<", "a", "container_name", "containerd", "host", "labels", "namespace",
      "pod_id", "pod_name", "pod_owners">>

KeyRanks ==
    [key \in Range(KeyOrder) |-> CHOOSE i \in 1..Len(KeyOrder) : KeyOrder[i] = key]

KeyRank(key) == KeyRanks[key]

RECURSIVE SortedKeys(_)
SortedKeys(S) ==
    IF S = {} THEN <<>>
    ELSE LET first == CHOOSE x \in S : \A y \in S : KeyRank(x) <= KeyRank(y)
         IN  <<first>> \o SortedKeys(S \ {first})

\* json.Marshal escapes <, > and & in the keys it writes and in what a
\* Marshaler returns
EscapeHTML(tok) ==
    IF tok \in StrLits /\ Unquoted[tok] \in DOMAIN Escaped
    THEN Escaped[Unquoted[tok]]
    ELSE tok

\* json.Marshal compacts what RawMessage.MarshalJSON returns
Compact(raw) ==
    LET dense == SelectSeq(raw, LAMBDA tok : tok # Space)
    IN  [i \in 1..Len(dense) |-> EscapeHTML(dense[i])]

RECURSIVE MarshalMembers(_, _)
MarshalMembers(blob, keys) ==
    IF keys = <<>> THEN <<>>
    ELSE <<EscapeHTML(Quoted[Head(keys)]), Colon>> \o Compact(blob[Head(keys)])
            \o (IF Len(keys) > 1 THEN <<Comma>> ELSE <<>>)
            \o MarshalMembers(blob, Tail(keys))

\* json.Marshal(newBlob) of a non-nil map[string]json.RawMessage; the raw
\* values come from a successful Unmarshal, so it returns no error
Marshal(blob) ==
    <<LBrace>> \o MarshalMembers(blob, SortedKeys(DOMAIN blob)) \o <<RBrace>>

\* ------------------------------------------------------------ pcommon
StrVal(s) == [type |-> "Str", str |-> s, int |-> 0]
IntVal(n) == [type |-> "Int", str |-> <<>>, int |-> n]
EmptyVal == [type |-> "Empty", str |-> <<>>, int |-> 0]

\* pcommon.Value.Str: the empty string for a value that is no string
Str(v) == IF v.type = "Str" THEN v.str ELSE <<>>

\* pcommon.Map.Get
Get(attributes, k) ==
    IF k \in DOMAIN attributes
    THEN [ok |-> TRUE, v |-> attributes[k]]
    ELSE [ok |-> FALSE, v |-> EmptyVal]

PutStrElsewhere(attributes, k, s) ==
    [x \in DOMAIN attributes \cup {"filtered"} |->
        IF x = "filtered" THEN StrVal(s) ELSE attributes[x]]

\* pcommon.Map.PutStr
PutStr(attributes, k, s) ==
    [x \in DOMAIN attributes \cup {k} |->
        IF x = k THEN StrVal(s) ELSE attributes[x]]

\* ------------------------------------------------------------ the filter
WarnUnmarshal(lk) ==
    [level |-> "warn",
     msg |-> "gpuAttributesProcessor: failed to unmarshal label",
     field |-> lk]

DebugUnknownType(type) ==
    [level |-> "debug", msg |-> "Ignore unknown metric type", field |-> type]

\* labelFilter as processMetricAttributes builds it: label -> set of
\* sub-labels (empty for a nil child map)
LabelFilter(labels, k8sBlobLabels) ==
    LET k8sBlobMap == Range(k8sBlobLabels)
        keys == Range(labels) \cup (IF k8sBlobMap # {} THEN {K8sKey} ELSE {})
    IN  [attr \in keys |->
            IF attr = K8sKey /\ k8sBlobMap # {} THEN k8sBlobMap ELSE {}]

KeepEveryAttribute(labels, k) == TRUE

\* the predicate handed to RemoveIf, negated: the label is in the keep list
KeepAttribute(labels, k) == k \in DOMAIN labels

RemoveFirstOnly(attributes, labels) ==
    LET gone == {x \in DOMAIN attributes : ~KeepAttribute(labels, x)}
        one == IF gone = {} THEN {} ELSE {CHOOSE x \in gone : TRUE}
    IN  [k \in DOMAIN attributes \ one |-> attributes[k]]

\* attributes.RemoveIf(...)
RemoveIf(attributes, labels) ==
    [k \in {x \in DOMAIN attributes : KeepAttribute(labels, x)} |-> attributes[k]]

KeepWholeBlob(blob, ls) == blob

\* newBlob: the entries of blob whose key is in the child filter list
FilterBlob(blob, ls) ==
    [bkey \in {b \in DOMAIN blob : b \in ls} |-> blob[bkey]]

\* the body of the loop over labels, for one label with a child filter list
BlobStep(attributes, lk, ls) ==
    LET got == Get(attributes, lk)
        dec == Unmarshal(Str(got.v))
    IN  IF ~got.ok THEN [attrs |-> attributes, logs |-> <<>>]
        ELSE IF dec.err
             THEN [attrs |-> attributes, logs |-> <<WarnUnmarshal(lk)>>]
        ELSE [attrs |-> PutStr(attributes, lk, Marshal(FilterBlob(dec.blob, ls))),
              logs |-> <<>>]

\* for lk, ls := range labels, skipping the labels without a child list
RECURSIVE BlobLoop(_, _, _)
BlobLoop(r, labels, todo) ==
    IF todo = {} THEN r
    ELSE LET lk == CHOOSE x \in todo : TRUE
             s == BlobStep(r.attrs, lk, labels[lk])
         IN  BlobLoop([attrs |-> s.attrs, logs |-> r.logs \o s.logs],
                      labels, todo \ {lk})

filterAttributes(attributes, labels) ==
    IF DOMAIN labels = {} THEN [attrs |-> attributes, logs |-> <<>>]
    ELSE BlobLoop([attrs |-> RemoveIf(attributes, labels), logs |-> <<>>],
                  labels, {lk \in DOMAIN labels : labels[lk] # {}})

\* ------------------------------------------------------------ one metric
EveryMetricIsGpu(name) == TRUE

IsGpuMetric(name) == Contains(name, gpuMetricIdentifier)

\* the if / else-if chain over the name prefixes
Classify(name) ==
    IF HasPrefix(name, gpuContainerMetricPrefix) THEN "container"
    ELSE IF HasPrefix(name, gpuPodMetricPrefix) THEN "pod"
    ELSE IF HasPrefix(name, gpuNodeMetricPrefix) THEN "node"
    ELSE "none"

LevelFilter(reg, L) == LabelFilter(LevelLabels(reg, L), LevelK8sLabels(reg, L))

SelectLabelFilter(reg, name) == LevelFilter(reg, Classify(name))

RECURSIVE ConcatLogs(_, _)
ConcatLogs(results, i) ==
    IF i > Len(results) THEN <<>>
    ELSE results[i].logs \o ConcatLogs(results, i + 1)

\* the switch on m.Type() and the loop over the data points. For a type
\* that is neither Gauge nor Sum dps stays the zero NumberDataPointSlice,
\* whose Len() dereferences its nil slice pointer: the call panics.
FilterMetric(m, labelFilter) ==
    IF m.type \in {"Gauge", "Sum"}
    THEN LET results == [i \in 1..Len(m.dps) |->
                            filterAttributes(m.dps[i].attrs, labelFilter)]
         IN  [m |-> [m EXCEPT !.dps =
                        [i \in 1..Len(m.dps) |->
                            [m.dps[i] EXCEPT !.attrs = results[i].attrs]]],
              logs |-> ConcatLogs(results, 1),
              panicked |-> FALSE]
    ELSE [m |-> m, logs |-> <<DebugUnknownType(m.type)>>, panicked |-> TRUE]

processMetricAttributes(reg, m) ==
    IF ~IsGpuMetric(m.name) THEN [m |-> m, logs |-> <<>>, panicked |-> FALSE]
    ELSE FilterMetric(m, SelectLabelFilter(reg, m.name))

\* ------------------------------------------------------------ the walk
\* md.ResourceMetrics()[i].ScopeMetrics()[j].Metrics()[k]
Positions(b) ==
    UNION {UNION {{<<i, j, k>> : k \in 1..Len(b[i].scopeMetrics[j].metrics)} :
                    j \in 1..Len(b[i].scopeMetrics)} :
             i \in 1..Len(b)}

PosLess(p, q) ==
    \/ p[1] < q[1]
    \/ p[1] = q[1] /\ p[2] < q[2]
    \/ p[1] = q[1] /\ p[2] = q[2] /\ p[3] < q[3]

End == <<0, 0, 0>>

\* the loop counters after one more k++, empty groups passed over
After(b, p) ==
    LET later == {q \in Positions(b) : PosLess(p, q)}
    IN  IF later = {} THEN End
        ELSE CHOOSE q \in later : \A x \in later : x = q \/ PosLess(q, x)

First(b) == After(b, End)

At(b, p) == b[p[1]].scopeMetrics[p[2]].metrics[p[3]]

Put(b, p, m) == [b EXCEPT ![p[1]].scopeMetrics[p[2]].metrics[p[3]] = m]

\* processMetrics run on its own from position p on
RECURSIVE RunFrom(_, _, _, _)
RunFrom(reg, b, p, lg) ==
    IF p = End
    THEN [md |-> b, err |-> "nil", logs |-> lg, panicked |-> FALSE]
    ELSE LET r == processMetricAttributes(reg, At(b, p))
         IN  IF r.panicked
             THEN [md |-> Put(b, p, r.m), err |-> "none",
                   logs |-> lg \o r.logs, panicked |-> TRUE]
             ELSE RunFrom(reg, Put(b, p, r.m), After(b, p), lg \o r.logs)

processMetrics(reg, md) == RunFrom(reg, md, First(md), <<>>)

\* ------------------------------------------------------------ inputs
NameTail == <<"gpu", "_", "u">>
NameContainer == gpuContainerMetricPrefix \o NameTail  \* container_gpu_u
NamePod == gpuPodMetricPrefix \o NameTail              \* pod_gpu_u
NameNode == gpuNodeMetricPrefix \o NameTail            \* node_gpu_u
NameOther == <<"x", "_">> \o NameTail                  \* x_gpu_u
NameNoMarker == <<"pod", "_", "gpu">>                  \* pod_gpu
Names == {NameContainer, NamePod, NameNode, NameOther, NameNoMarker}

Types == {"Gauge", "Sum", "Histogram"}

Kinds == [name : Names, type : Types]

TextOf(word) == <<word>>

\* {"a":1, "namespace":"<","container_name":1}
SampleObject ==
    <<LBrace, StrLit("a"), Colon, "1", Comma, Space,
      StrLit("namespace"), Colon, StrLit("<"), Comma,
      StrLit("container_name"), Colon, "1", RBrace>>

AttrSamples ==
    << (ClusterNameKey :> StrVal(TextOf("c1")))
         @@ (K8sNamespace :> StrVal(TextOf("ns1")))
         @@ (ContainerNamekey :> StrVal(TextOf("ct1")))
         @@ ("UnknownKey" :> StrVal(TextOf("x")))
         @@ (K8sKey :> StrVal(SampleObject)),
       (ClusterNameKey :> StrVal(TextOf("c1")))
         @@ (PodNameKey :> StrVal(TextOf("p1")))
         @@ ("UnknownKey" :> IntVal(7)),
       (ClusterNameKey :> StrVal(TextOf("c1")))
         @@ ("UnknownKey" :> StrVal(TextOf("x")))
         @@ (K8sKey :> StrVal(TextOf("not-json"))) >>

\* the metric at place i of a batch, with n data points: the attribute
\* sets are taken from AttrSamples in turn
MakeMetric(kind, i, n) ==
    [name |-> kind.name,
     type |-> kind.type,
     dps |-> [j \in 1..n |->
                [value |-> 10 * i + j,
                 attrs |-> AttrSamples[((i + j - 2) % Len(AttrSamples)) + 1]]]]

Shapes == {"one", "scopes", "resources", "padded"}

\* a list of metrics laid out in resource groups and scope groups
Layout(ms, shape) ==
    CASE shape = "one" -> <<[scopeMetrics |-> <<[metrics |-> ms]>>]>>
      [] shape = "scopes" ->
            <<[scopeMetrics |-> [i \in 1..Len(ms) |-> [metrics |-> <<ms[i]>>]]]>>
      [] shape = "resources" ->
            [i \in 1..Len(ms) |-> [scopeMetrics |-> <<[metrics |-> <<ms[i]>>]>>]]
      [] shape = "padded" ->
            <<[scopeMetrics |-> <<>>],
              [scopeMetrics |-> <<[metrics |-> <<>>], [metrics |-> ms]>>]>>

KindLists(kinds, lo) == UNION {[1..n -> kinds] : n \in lo..MaxMetrics}

\* the batch of kinds ks in layout shape, n data points per metric
MakeBatch(ks, shape, n) ==
    Layout([i \in 1..Len(ks) |-> MakeMetric(ks[i], i, n)], shape)

ConcKinds ==
    {[name |-> NameContainer, type |-> "Gauge"],
     [name |-> NameNoMarker, type |-> "Sum"],
     [name |-> NamePod, type |-> "Histogram"]}

\* --- inputs of the unit harness
Alphabet ==
    {LBrace, RBrace, LBracket, RBracket, Space, Null, "0", "1",
     StrLit("host"), "not-json"}

\* every text of at most MaxBlobLen lexemes
ShortTexts == UNION {[1..n -> Alphabet] : n \in 0..MaxBlobLen}

SampleKeys == {"a", "container_name", "namespace", "host"}
SampleRaws == {<<"1">>, <<StrLit("<")>>, <<LBrace, Space, RBrace>>}
PairLists == UNION {[1..n -> [key : SampleKeys, raw : SampleRaws]] : n \in 0..MaxPairs}

\* the text of an object with the given members, written with or without
\* white space
RECURSIVE RenderMembers(_, _)
RenderMembers(pairs, pad) ==
    IF pairs = <<>> THEN <<>>
    ELSE pad \o <<StrLit(Head(pairs).key)>> \o pad \o <<Colon>> \o pad
            \o Head(pairs).raw
            \o (IF Len(pairs) > 1 THEN pad \o <<Comma>> ELSE <<>>)
            \o RenderMembers(Tail(pairs), pad)

Render(pairs, pad) ==
    pad \o <<LBrace>> \o RenderMembers(pairs, pad) \o pad \o <<RBrace>> \o pad

FlatKeys == {ClusterNameKey, K8sNamespace, ContainerNamekey, "UnknownKey"}

\* {"host":0}, {"host":10}, {"host":01} (a number may not start with 0
\* followed by a digit) and {"<":1,"\u003c":0,"host":1} (one key written
\* twice)
EdgeObjects ==
    {<<LBrace, StrLit("host"), Colon, "0", RBrace>>,
     <<LBrace, StrLit("host"), Colon, "1", "0", RBrace>>,
     <<LBrace, StrLit("host"), Colon, "0", "1", RBrace>>,
     <<LBrace, StrLit("<"), Colon, "1", Comma, Escaped["<"], Colon, "0", Comma,
       StrLit("host"), Colon, "1", RBrace>>}

\* no blob, a blob that is no string, and string blobs
CoreBlobs ==
    {{}, {IntVal(7)}, {StrVal(SampleObject)}, {StrVal(TextOf("not-json"))},
     {StrVal(<<Null>>)}} \cup {{StrVal(t)} : t \in EdgeObjects}

\* an attribute set: the flat keys in F, and the blob attribute when given
MakeAttrs(F, blob) ==
    [k \in F \cup {K8sKey : x \in blob} |->
        IF k = K8sKey /\ blob # {} THEN CHOOSE v \in blob : TRUE
        ELSE StrVal(TextOf("v"))]

\* a batch of one Gauge metric with one data point
UnitBatch(name, attrs) ==
    Layout(<<[name |-> name, type |-> "Gauge",
              dps |-> <<[value |-> 1, attrs |-> attrs]>>]>>, "one")

\* ------------------------------------------------------------ the calls
Workers == {1, 2}

\* what a call returned: md is the handle it was given, err is nil
NoReturn == [md |-> "none", err |-> "none"]
NoFilter == LabelFilter(<<>>, <<>>)

FrameShared(w) == 1

\* labelFilter is a local of processMetricAttributes: every call has its own
Frame(w) == w

Crashed == \E w \in Workers : pc[w] = "panic"

Calls(b) ==
    /\ input = b
    /\ batch = b
    /\ pc = [w \in Workers |-> IF b[w] = <<>> /\ w # 1 THEN "idle" ELSE "walk"]
    /\ pos = [w \in Workers |-> First(b[w])]
    /\ locals = [f \in Workers |-> NoFilter]
    /\ logs = [w \in Workers |-> <<>>]
    /\ ret = [w \in Workers |-> NoReturn]

WalkOff ==
    /\ input = [w \in Workers |-> <<>>]
    /\ batch = [w \in Workers |-> <<>>]
    /\ pc = [w \in Workers |-> "idle"]
    /\ pos = [w \in Workers |-> End]
    /\ locals = [f \in Workers |-> NoFilter]
    /\ logs = [w \in Workers |-> <<>>]
    /\ ret = [w \in Workers |-> NoReturn]

UnitOff ==
    /\ fin = <<>>
    /\ fout1 = <<>>
    /\ fout2 = <<>>
    /\ pout1 = <<>>
    /\ pout2 = <<>>
    /\ phase = "off"

\* one call of processMetrics
Init ==
    /\ registry = InitialRegistry
    /\ \E ks \in KindLists(Kinds, 0), shape \in Shapes, n \in 0..MaxPoints :
            Calls([w \in Workers |->
                    IF w = 1 THEN MakeBatch(ks, shape, n) ELSE <<>>])
    /\ UnitOff

\* two workers call processMetrics on their own batches
InitConc ==
    /\ registry = InitialRegistry
    /\ \E k1 \in KindLists(ConcKinds, 1), k2 \in KindLists(ConcKinds, 1) :
            Calls([w \in Workers |->
                    MakeBatch(IF w = 1 THEN k1 ELSE k2, "one", 1)])
    /\ UnitOff

\* processMetricAttributes returns at once for a metric without the marker
Skip(w) ==
    /\ ~Crashed
    /\ pc[w] = "walk"
    /\ pos[w] # End
    /\ ~IsGpuMetric(At(batch[w], pos[w]).name)
    /\ pos' = [pos EXCEPT ![w] = After(batch[w], pos[w])]
    /\ UNCHANGED <<registry, input, batch, pc, locals, logs, ret>>
    /\ UNCHANGED unitVars

\* processMetricAttributes up to the switch: labelFilter is built
SelectSchema(w) ==
    /\ ~Crashed
    /\ pc[w] = "walk"
    /\ pos[w] # End
    /\ IsGpuMetric(At(batch[w], pos[w]).name)
    /\ locals' = [locals EXCEPT ![Frame(w)] =
                    SelectLabelFilter(registry, At(batch[w], pos[w]).name)]
    /\ pc' = [pc EXCEPT ![w] = "points"]
    /\ UNCHANGED <<registry, input, batch, pos, logs, ret>>
    /\ UNCHANGED unitVars

\* the switch and the loop over the data points
FilterPoints(w) ==
    /\ ~Crashed
    /\ pc[w] = "points"
    /\ LET r == FilterMetric(At(batch[w], pos[w]), locals[Frame(w)])
       IN  /\ batch' = [batch EXCEPT ![w] = Put(batch[w], pos[w], r.m)]
           /\ logs' = [logs EXCEPT ![w] = logs[w] \o r.logs]
           /\ pc' = [pc EXCEPT ![w] = IF r.panicked THEN "panic" ELSE "walk"]
           /\ pos' = [pos EXCEPT ![w] =
                        IF r.panicked THEN pos[w] ELSE After(batch[w], pos[w])]
    /\ UNCHANGED <<registry, input, locals, ret>>
    /\ UNCHANGED unitVars

\* return md, nil
Return(w) ==
    /\ ~Crashed
    /\ pc[w] = "walk"
    /\ pos[w] = End
    /\ ret' = [ret EXCEPT ![w] = [md |-> "md", err |-> "nil"]]
    /\ pc' = [pc EXCEPT ![w] = "done"]
    /\ UNCHANGED <<registry, input, batch, pos, locals, logs>>
    /\ UNCHANGED unitVars

Next ==
    \E w \in Workers :
        \/ Skip(w)
        \/ SelectSchema(w)
        \/ FilterPoints(w)
        \/ Return(w)

Spec == Init /\ [][Next]_vars

SpecConc == InitConc /\ [][Next]_vars

\* ------------------------------------------------------------ unit harness
\* filterAttributes and processMetrics applied to one attribute set, under
\* every level and every metric name, once and then again to the result
UnitInput(attrs) ==
    /\ fin = attrs
    /\ fout1 = <<>>
    /\ fout2 = <<>>
    /\ pout1 = <<>>
    /\ pout2 = <<>>
    /\ phase = "input"

\* every set of flat keys with a few blobs, and every blob with all flat keys
InitUnit ==
    /\ registry = InitialRegistry
    /\ WalkOff
    /\ \/ \E F \in SUBSET FlatKeys, blob \in CoreBlobs : UnitInput(MakeAttrs(F, blob))
       \/ \E t \in ShortTexts : UnitInput(MakeAttrs(FlatKeys, {StrVal(t)}))
       \/ \E pairs \in PairLists, pad \in {<<>>, <<Space>>} :
                UnitInput(MakeAttrs(FlatKeys, {StrVal(Render(pairs, pad))}))

Apply ==
    /\ phase = "input"
    /\ fout1' = [L \in Levels |-> filterAttributes(fin, LevelFilter(registry, L))]
    /\ pout1' = [n \in Names |-> processMetrics(registry, UnitBatch(n, fin))]
    /\ phase' = "once"
    /\ UNCHANGED <<registry, fin, fout2, pout2>>
    /\ UNCHANGED walkVars

ApplyAgain ==
    /\ phase = "once"
    /\ fout2' = [L \in Levels |->
                    filterAttributes(fout1[L].attrs, LevelFilter(registry, L))]
    /\ pout2' = [n \in Names |-> processMetrics(registry, pout1[n].md)]
    /\ phase' = "twice"
    /\ UNCHANGED <<registry, fin, fout1, pout1>>
    /\ UNCHANGED walkVars

NextUnit == Apply \/ ApplyAgain

SpecUnit == InitUnit /\ [][NextUnit]_vars

\* ============================================================ properties
\* The conditions of the claims, stated on the names and tables themselves.
HasGpuMarker(name) == Contains(name, gpuMetricIdentifier)

PrefixLevel(name) ==
    IF HasPrefix(name, gpuContainerMetricPrefix) THEN "container"
    ELSE IF HasPrefix(name, gpuPodMetricPrefix) THEN "pod"
    ELSE IF HasPrefix(name, gpuNodeMetricPrefix) THEN "node"
    ELSE "none"

Classified(m) ==
    /\ HasGpuMarker(m.name)
    /\ PrefixLevel(m.name) \in Levels

LabelList(L) == Range(LevelLabels(InitialRegistry, L))
BlobAllowList(L) == Range(LevelK8sLabels(InitialRegistry, L))
FlatAllowList(L) == LabelList(L) \cup {K8sKey}

Started == {w \in Workers : pc[w] # "idle"}

SameShape(a, b) ==
    /\ Len(a) = Len(b)
    /\ \A i \in 1..Len(a) :
        /\ Len(a[i].scopeMetrics) = Len(b[i].scopeMetrics)
        /\ \A j \in 1..Len(a[i].scopeMetrics) :
            Len(a[i].scopeMetrics[j].metrics) = Len(b[i].scopeMetrics[j].metrics)

\* the value is a string holding the text of a JSON object
IsObjectText(v) ==
    /\ v.type = "Str"
    /\ ValidJSON(v.str)
    /\ v.str[SkipWs(v.str, 1)] = LBrace

\* what a raw value decodes to: white space and escaping do not count
Decoded(raw) ==
    LET dense == SelectSeq(raw, LAMBDA tok : tok # Space)
    IN  [i \in 1..Len(dense) |->
            IF dense[i] \in StrLits THEN Quoted[Unquoted[dense[i]]] ELSE dense[i]]

DecodedObject(v) ==
    LET blob == Unmarshal(v.str).blob
    IN  [key \in DOMAIN blob |-> Decoded(blob[key])]

\* C1: when processMetrics has returned, every data point of every Gauge or
\* Sum metric named *_gpu_* with a container_, pod_ or node_ prefix, in every
\* resource group and scope group, holds only keys of its level's flat
\* allow-list, and every label of the level's list that was present before
\* is still present with the value it had.
C1_AllowListClosure ==
    \A w \in Workers :
        pc[w] = "done" =>
            /\ SameShape(input[w], batch[w])
            /\ \A p \in Positions(input[w]) :
                LET m0 == At(input[w], p)
                    m1 == At(batch[w], p)
                    L == PrefixLevel(m0.name)
                IN  (Classified(m0) /\ m0.type \in {"Gauge", "Sum"}) =>
                        /\ Len(m1.dps) = Len(m0.dps)
                        /\ \A i \in 1..Len(m0.dps) :
                            /\ DOMAIN m1.dps[i].attrs \subseteq FlatAllowList(L)
                            /\ \A k \in (LabelList(L) \ {K8sKey})
                                            \cap DOMAIN m0.dps[i].attrs :
                                /\ k \in DOMAIN m1.dps[i].attrs
                                /\ m1.dps[i].attrs[k] = m0.dps[i].attrs[k]

\* a returned call on a batch with an empty resource group and an empty
\* scope group, whose last metric is a node level Gauge or Sum with two
\* data points: both lost the keys outside the node list and kept a label
\* of the list, one lost a pod label, the other holds a blob that is no
\* JSON
C1_Witness ==
    \E w \in Workers :
        /\ pc[w] = "done"
        /\ Len(input[w]) = 2
        /\ Len(input[w][1].scopeMetrics) = 0
        /\ Len(input[w][2].scopeMetrics) = 2
        /\ \E p \in Positions(input[w]) :
            LET m0 == At(input[w], p)
                m1 == At(batch[w], p)
            IN  /\ After(input[w], p) = End
                /\ p # First(input[w])
                /\ Classified(m0)
                /\ PrefixLevel(m0.name) = "node"
                /\ m0.type \in {"Gauge", "Sum"}
                /\ Len(m0.dps) = 2
                /\ \A i \in 1..Len(m0.dps) :
                    /\ "UnknownKey" \in DOMAIN m0.dps[i].attrs
                    /\ "UnknownKey" \notin DOMAIN m1.dps[i].attrs
                    /\ ClusterNameKey \in DOMAIN m1.dps[i].attrs
                /\ \E i \in 1..Len(m0.dps) :
                    /\ PodNameKey \in DOMAIN m0.dps[i].attrs
                    /\ PodNameKey \notin DOMAIN m1.dps[i].attrs
                /\ \E i \in 1..Len(m0.dps) :
                    /\ K8sKey \in DOMAIN m0.dps[i].attrs
                    /\ ~IsObjectText(m0.dps[i].attrs[K8sKey])
                    /\ K8sKey \in DOMAIN m1.dps[i].attrs

\* C2: a metric whose name lacks _gpu_, or has it but starts with none of
\* container_, pod_, node_, keeps the attribute set of every data point
\* exactly, in every state of the call; the filter built for it is empty,
\* and a call that returns returns a nil error.
C2_UnclassifiedPassThrough ==
    \A w \in Started :
        /\ SameShape(input[w], batch[w])
        /\ \A p \in Positions(input[w]) :
            LET m0 == At(input[w], p)
                m1 == At(batch[w], p)
            IN  ~Classified(m0) =>
                    /\ Len(m1.dps) = Len(m0.dps)
                    /\ \A i \in 1..Len(m0.dps) : m1.dps[i].attrs = m0.dps[i].attrs
                    /\ (pc[w] = "points" /\ pos[w] = p) =>
                            DOMAIN locals[Frame(w)] = {}
        /\ pc[w] = "done" => ret[w].err = "nil"

\* a returned call that walked a pod_gpu metric and an x_gpu_u metric, both
\* Gauge or Sum, whose data points still hold the key outside every list
C2_Witness ==
    \E w \in Workers :
        /\ pc[w] = "done"
        /\ \E p, q \in Positions(input[w]) :
            /\ At(input[w], p).name = NameNoMarker
            /\ At(input[w], q).name = NameOther
            /\ At(input[w], q).type \in {"Gauge", "Sum"}
            /\ \A x \in {p, q} :
                /\ Len(At(batch[w], x).dps) > 0
                /\ "UnknownKey" \in DOMAIN At(batch[w], x).dps[1].attrs
            /\ \E x \in {p, q} : K8sKey \in DOMAIN At(batch[w], x).dps[1].attrs

\* C10: in every state of a call the batch has the resource groups, scope
\* groups, metrics and data points of the input, in the same order, with the
\* same names, types and values; the keys of every data point are among the
\* keys it had, and no value but that of the blob attribute differs.
C10_OnlyAttributesShrink ==
    \A w \in Started :
        /\ SameShape(input[w], batch[w])
        /\ \A p \in Positions(input[w]) :
            LET m0 == At(input[w], p)
                m1 == At(batch[w], p)
            IN  /\ m1.name = m0.name
                /\ m1.type = m0.type
                /\ Len(m1.dps) = Len(m0.dps)
                /\ \A i \in 1..Len(m0.dps) :
                    /\ m1.dps[i].value = m0.dps[i].value
                    /\ DOMAIN m1.dps[i].attrs \subseteq DOMAIN m0.dps[i].attrs
                    /\ \A k \in DOMAIN m1.dps[i].attrs \ {K8sKey} :
                            m1.dps[i].attrs[k] = m0.dps[i].attrs[k]

\* a returned call after which one data point has fewer keys and another
\* blob text than before, a filtered data point that had no blob attribute
\* has none, and a metric has its two data points, of different values, in
\* the order they had, both with fewer keys, one with its blob that is no
\* JSON
C10_Witness ==
    \E w \in Workers :
        /\ pc[w] = "done"
        /\ \E p, q \in Positions(input[w]) :
            LET a0 == At(input[w], p).dps[1].attrs
                a1 == At(batch[w], p).dps[1].attrs
                b0 == At(input[w], q).dps[1].attrs
                b1 == At(batch[w], q).dps[1].attrs
            IN  /\ Len(At(input[w], p).dps) > 0
                /\ Len(At(input[w], q).dps) > 0
                /\ DOMAIN a1 # DOMAIN a0
                /\ K8sKey \in DOMAIN a1
                /\ a1[K8sKey] # a0[K8sKey]
                /\ K8sKey \notin DOMAIN b0
                /\ b1 # b0
                /\ K8sKey \notin DOMAIN b1
        /\ \E r \in Positions(input[w]) :
            LET m0 == At(input[w], r)
                m1 == At(batch[w], r)
            IN  /\ Len(m0.dps) = 2
                /\ Len(m1.dps) = 2
                /\ m0.dps[1].value # m0.dps[2].value
                /\ \A i \in 1..2 :
                    /\ m1.dps[i].value = m0.dps[i].value
                    /\ DOMAIN m1.dps[i].attrs # DOMAIN m0.dps[i].attrs
                /\ \E i \in 1..2 :
                    /\ K8sKey \in DOMAIN m0.dps[i].attrs
                    /\ ~IsObjectText(m0.dps[i].attrs[K8sKey])
                    /\ m1.dps[i].attrs[K8sKey] = m0.dps[i].attrs[K8sKey]

\* C5: processMetrics never fails: no call is aborted, whatever the batch.
C5_NeverFails == \A w \in Workers : pc[w] # "panic"

UnsupportedGpu(m) == HasGpuMarker(m.name) /\ m.type \notin {"Gauge", "Sum"}

\* C6: once a call has ended, for every metric named *_gpu_* whose type is
\* neither Gauge nor Sum the debug diagnostic was logged, its data points
\* are as they were, and every metric after it has been processed.
C6_UnsupportedTypeSkipped ==
    \A w \in Workers :
        pc[w] \in {"done", "panic"} =>
            \A p \in Positions(input[w]) :
                UnsupportedGpu(At(input[w], p)) =>
                    /\ DebugUnknownType(At(input[w], p).type) \in Range(logs[w])
                    /\ At(batch[w], p) = At(input[w], p)
                    /\ \A q \in Positions(input[w]) :
                        PosLess(p, q) =>
                            At(batch[w], q) =
                                processMetricAttributes(InitialRegistry,
                                                        At(input[w], q)).m

HasBlob(attrs) == K8sKey \in DOMAIN attrs

\* C3: when the blob attribute holds the text of a JSON object, after
\* filtering at level L it holds the text of the object made of exactly the
\* original entries whose key is in the blob allow-list of L, each with the
\* value it had.
C3_BlobFiltering ==
    phase # "input" =>
        \A L \in Levels :
            (HasBlob(fin) /\ IsObjectText(fin[K8sKey])) =>
                /\ HasBlob(fout1[L].attrs)
                /\ IsObjectText(fout1[L].attrs[K8sKey])
                /\ LET before == DecodedObject(fin[K8sKey])
                       after == DecodedObject(fout1[L].attrs[K8sKey])
                   IN  /\ DOMAIN after = DOMAIN before \cap BlobAllowList(L)
                       /\ \A key \in DOMAIN after : after[key] = before[key]

\* an object with an entry outside every list and an entry of the pod list
\* was filtered at pod level: the first is gone, the second is there
C3_Witness ==
    /\ phase = "once"
    /\ HasBlob(fin)
    /\ IsObjectText(fin[K8sKey])
    /\ {"a", "namespace"} \subseteq DOMAIN DecodedObject(fin[K8sKey])
    /\ DOMAIN DecodedObject(fout1["pod"].attrs[K8sKey]) = {"namespace"}
    /\ fout1["pod"].attrs[K8sKey] # fin[K8sKey]

\* C4: a blob attribute whose value is not the text of a JSON object (text
\* that is no JSON, the empty string, an array, a scalar, null, a value that
\* is no string) is still there with the same value after filtering, a
\* warning naming the key was logged, and the other keys are filtered.
C4_FailOpen ==
    phase # "input" =>
        \A L \in Levels :
            (HasBlob(fin) /\ ~IsObjectText(fin[K8sKey])) =>
                /\ HasBlob(fout1[L].attrs)
                /\ fout1[L].attrs[K8sKey] = fin[K8sKey]
                /\ WarnUnmarshal(K8sKey) \in Range(fout1[L].logs)
                /\ DOMAIN fout1[L].attrs \subseteq FlatAllowList(L)

\* C7: filterAttributes applied to its own result changes nothing, at every
\* level, and processMetrics applied to the batch it returned changes
\* nothing, whether the blob is well-formed, malformed or absent.
C7_Idempotent ==
    phase = "twice" =>
        /\ \A L \in Levels : fout2[L].attrs = fout1[L].attrs
        /\ \A n \in Names : pout2[n].md = pout1[n].md

\* both applications were made to an attribute set that the first one
\* changed, in its keys and in its blob text, at every level
C7_Witness ==
    /\ phase = "twice"
    /\ HasBlob(fin)
    /\ \A L \in Levels :
        /\ DOMAIN fout1[L].attrs # DOMAIN fin
        /\ fout1[L].attrs[K8sKey] # fin[K8sKey]
    /\ pout1[NameContainer].md # UnitBatch(NameContainer, fin)
    /\ pout2[NameContainer].md = pout1[NameContainer].md

\* the sub-keys left in the blob attribute of an attribute set
BlobKeys(attrs) ==
    IF HasBlob(attrs) /\ IsObjectText(attrs[K8sKey])
    THEN DOMAIN DecodedObject(attrs[K8sKey])
    ELSE {}

\* C8: the label list of the container level contains that of the pod
\* level, which contains that of the node level, and so do the blob lists;
\* the keys and the blob sub-keys left by filtering an attribute set at
\* container level contain those left at pod level, which contain those
\* left at node level.
C8_SupersetRelation ==
    /\ Range(registry.nodeLabels) \subseteq Range(registry.podLabels)
    /\ Range(registry.podLabels) \subseteq Range(registry.containerLabels)
    /\ Range(registry.nodeK8sLabels) \subseteq Range(registry.podK8sLabels)
    /\ Range(registry.podK8sLabels) \subseteq Range(registry.containerK8sLabels)
    /\ phase # "input" =>
        /\ DOMAIN fout1["node"].attrs \subseteq DOMAIN fout1["pod"].attrs
        /\ DOMAIN fout1["pod"].attrs \subseteq DOMAIN fout1["container"].attrs
        /\ BlobKeys(fout1["node"].attrs) \subseteq BlobKeys(fout1["pod"].attrs)
        /\ BlobKeys(fout1["pod"].attrs) \subseteq BlobKeys(fout1["container"].attrs)

\* one attribute set was filtered at the three levels and each level kept
\* strictly more keys than the level under it, and the container level
\* more blob sub-keys than the pod level
C8_Witness ==
    /\ phase = "once"
    /\ DOMAIN fout1["node"].attrs # DOMAIN fout1["pod"].attrs
    /\ DOMAIN fout1["pod"].attrs # DOMAIN fout1["container"].attrs
    /\ DOMAIN fout1["container"].attrs # DOMAIN fin
    /\ BlobKeys(fout1["pod"].attrs) # {}
    /\ BlobKeys(fout1["pod"].attrs) # BlobKeys(fout1["container"].attrs)

\* what processMetricAttributes makes of the metric at p of the input
AloneAt(w, p) == processMetricAttributes(InitialRegistry, At(input[w], p)).m

\* C9: with two workers calling processMetrics on their own batches, in
\* every state of every interleaving the schema tables are as initialised
\* and the batch of each worker is what its call alone makes of it: the
\* metrics the call has passed are as processMetricAttributes alone leaves
\* them, the others as in the input; a returned call has left the batch
\* that processMetrics run alone returns.
C9_CallsIndependent ==
    /\ registry = InitialRegistry
    /\ \A w \in Workers :
        /\ SameShape(input[w], batch[w])
        /\ \A p \in Positions(input[w]) :
            At(batch[w], p) =
                IF pos[w] = End \/ PosLess(p, pos[w])
                THEN AloneAt(w, p)
                ELSE At(input[w], p)
        /\ pc[w] = "done" =>
                batch[w] = processMetrics(InitialRegistry, input[w]).md

\* both workers are in the middle of their calls: each has filtered its
\* first metric, changing it, and has built the filter for its second
C9_Witness ==
    /\ \A w \in Workers :
        /\ pc[w] = "points"
        /\ pos[w] = <<1, 1, 2>>
        /\ At(batch[w], <<1, 1, 1>>) # At(input[w], <<1, 1, 1>>)
    /\ locals[Frame(1)] # locals[Frame(2)]

====
